---- MODULE Spec2Model ----
(***************************************************************************)
(* mal-rss-link: resolution of MAL entries into nyaa.si RSS search URLs.   *)
(*                                                                         *)
(* A name is a sequence of one-character strings.  A URL is a sequence of  *)
(* tokens, one per character of the query text after urlencode.            *)
(*                                                                         *)
(* The feed service is the environment: the first fetch of a URL draws its *)
(* answer from RemoteAnswers and later fetches of the same URL get the     *)
(* same answer (variable remote).  The iteration order of a Python set of  *)
(* strings is drawn afresh in every run of the program.  The tracking      *)
(* service answers every request; the details requests complete in any     *)
(* order.                                                                  *)
(*                                                                         *)
(* Spec is the watch-list path with accepted arguments, SpecRuns repeats   *)
(* the program on one entry, SpecArgs starts at the command line with      *)
(* every input path, SpecQuery is the --query path over composed texts.    *)
(***************************************************************************)
EXTENDS Integers, Sequences, FiniteSets, TLC

\* ------------------------------------------------------------------------
\* Characters and the character classes of Python's re module
\* ------------------------------------------------------------------------

UpperCase == <<"A", "B", "C", "D", "E", "F", "G", "H", "I", "J", "K", "L", "M", "N", "O", "P", "Q", "R", "S", "T", "U", "V", "W", "X", "Y", "Z">>

LowerCase == <<"a", "b", "c", "d", "e", "f", "g", "h", "i", "j", "k", "l", "m", "n", "o", "p", "q", "r", "s", "t", "u", "v", "w", "x", "y", "z">>

Range(s) == {s[i] : i \in DOMAIN s}

DigitChars == {"0", "1", "2", "3", "4", "5", "6", "7", "8", "9"}

\* \w of a str pattern: alphanumerics and the underscore
WordChars == Range(UpperCase) \cup Range(LowerCase) \cup DigitChars \cup {"_"}

IsWordChar(c) == c \in WordChars

\* \s
IsSpaceChar(c) == c \in {" ", "\t"}

\* [0-9]
IsDigitChar(c) == c \in DigitChars

\* re.IGNORECASE folds both sides to lower case
ToLower(c) ==
    IF \E i \in DOMAIN UpperCase : UpperCase[i] = c
    THEN LowerCase[CHOOSE i \in DOMAIN UpperCase : UpperCase[i] = c]
    ELSE c

\* the character class [st|nd|rd|th] under re.IGNORECASE
IsOrdinalClassChar(c) == ToLower(c) \in {"s", "t", "|", "n", "d", "r", "h"}

\* the alternation (season|stage), tried in this order
SeasonWords == << <<"s", "e", "a", "s", "o", "n">>, <<"s", "t", "a", "g", "e">> >>

\* ------------------------------------------------------------------------
\* Regular-expression matching helpers
\* ------------------------------------------------------------------------

\* First index >= i whose character is not a space: a greedy \s* from i.
RECURSIVE SkipSpaces(_, _)
SkipSpaces(s, i) ==
    IF i <= Len(s) /\ IsSpaceChar(s[i]) THEN SkipSpaces(s, i + 1) ELSE i

\* First index >= i whose character is not a digit: a greedy [0-9]* from i.
RECURSIVE SkipDigits(_, _)
SkipDigits(s, i) ==
    IF i <= Len(s) /\ IsDigitChar(s[i]) THEN SkipDigits(s, i + 1) ELSE i

\* First index >= i whose character is outside [st|nd|rd|th].
RECURSIVE SkipOrdinalClass(_, _)
SkipOrdinalClass(s, i) ==
    IF i <= Len(s) /\ IsOrdinalClassChar(s[i]) THEN SkipOrdinalClass(s, i + 1) ELSE i

\* Whether the literal w matches s at index i, ignoring case.
LiteralAt(s, i, w) ==
    /\ i + Len(w) - 1 <= Len(s)
    /\ \A k \in 1..Len(w) : ToLower(s[i + k - 1]) = w[k]

\* Index after (season|stage) matched at i, or 0 when neither matches.
SeasonWordEnd(s, i) ==
    IF LiteralAt(s, i, SeasonWords[1]) THEN i + Len(SeasonWords[1])
    ELSE IF LiteralAt(s, i, SeasonWords[2]) THEN i + Len(SeasonWords[2])
    ELSE 0

\* Index after a match of \s*(season|stage)\s*[0-9]+\s* that starts at i,
\* or 0 when the pattern does not match at i.
SeasonNumberMatchEnd(s, i) ==
    LET w == SeasonWordEnd(s, SkipSpaces(s, i))
        d == SkipSpaces(s, w)
        e == SkipDigits(s, d)
    IN  IF w = 0 \/ e = d THEN 0 ELSE SkipSpaces(s, e)

\* Index after a match of \s*[0-9]*[st|nd|rd|th]+\s*(season|stage)\s* that
\* starts at i, or 0.  The class run is greedy and gives characters back
\* until the rest of the pattern matches.
OrdinalSeasonMatchEnd(s, i) ==
    LET k    == SkipDigits(s, SkipSpaces(s, i))
        mmax == SkipOrdinalClass(s, k)
        ok   == {m \in (k + 1)..mmax : SeasonWordEnd(s, SkipSpaces(s, m)) # 0}
    IN  IF ok = {} THEN 0
        ELSE LET m == CHOOSE x \in ok : \A y \in ok : y <= x
             IN  SkipSpaces(s, SeasonWordEnd(s, SkipSpaces(s, m)))

\* re.sub(pattern, "", s) for the first pattern, scanning from index i.
RECURSIVE SubSeasonNumber(_, _)
SubSeasonNumber(s, i) ==
    IF i > Len(s) THEN << >>
    ELSE IF SeasonNumberMatchEnd(s, i) # 0
         THEN SubSeasonNumber(s, SeasonNumberMatchEnd(s, i))
         ELSE <<s[i]>> \o SubSeasonNumber(s, i + 1)

\* re.sub(pattern, "", s) for the second pattern, scanning from index i.
RECURSIVE SubOrdinalSeason(_, _)
SubOrdinalSeason(s, i) ==
    IF i > Len(s) THEN << >>
    ELSE IF OrdinalSeasonMatchEnd(s, i) # 0
         THEN SubOrdinalSeason(s, OrdinalSeasonMatchEnd(s, i))
         ELSE <<s[i]>> \o SubOrdinalSeason(s, i + 1)

\* re.sub(r"[^\w\s]", "", s)
RemovePunctuation(s) == SelectSeq(s, LAMBDA c : IsWordChar(c) \/ IsSpaceChar(c))

\* s.split(sep, 1)[0]: the part of s before the first sep
RECURSIVE BeforeFirst(_, _)
BeforeFirst(s, sep) ==
    IF s = << >> \/ Head(s) = sep THEN << >>
    ELSE <<Head(s)>> \o BeforeFirst(Tail(s), sep)

\* s.split(): the maximal runs of non-space characters
RECURSIVE SplitWords(_)
SplitWords(s) ==
    LET b == SkipSpaces(s, 1)
        e == CHOOSE j \in b..(Len(s) + 1) :
                 /\ \A k \in b..(j - 1) : ~IsSpaceChar(s[k])
                 /\ (j = Len(s) + 1 \/ IsSpaceChar(s[j]))
    IN  IF b > Len(s) THEN << >>
        ELSE <<SubSeq(s, b, e - 1)>> \o SplitWords(SubSeq(s, e, Len(s)))

\* " ".join(words)
RECURSIVE JoinWords(_)
JoinWords(words) ==
    IF words = << >> THEN << >>
    ELSE IF Len(words) = 1 THEN words[1]
    ELSE words[1] \o <<" ">> \o JoinWords(Tail(words))

\* words[:n]
FirstN(seq, n) == SubSeq(seq, 1, IF n < Len(seq) THEN n ELSE Len(seq))

\* ------------------------------------------------------------------------
\* rss_feed_modifications.py
\* ------------------------------------------------------------------------

split_colon_modification(entry_name) ==
    (IF RemovePunctuation(entry_name) # entry_name
     THEN <<RemovePunctuation(entry_name)>> ELSE << >>)
    \o (IF ":" \in Range(entry_name)
        THEN <<BeforeFirst(entry_name, ":")>> ELSE << >>)
    \o (IF "," \in Range(entry_name)
        THEN <<BeforeFirst(entry_name, ",")>> ELSE << >>)

season_number_modification(entry_name) ==
    (IF SubSeasonNumber(entry_name, 1) # entry_name
     THEN <<SubSeasonNumber(entry_name, 1)>> ELSE << >>)
    \o (IF SubOrdinalSeason(entry_name, 1) # entry_name
        THEN <<SubOrdinalSeason(entry_name, 1)>> ELSE << >>)

\* starting_words_modification with [:1] in place of [:2] on line 54.
starting_words_modification_one_word(entry_name) ==
    (IF JoinWords(FirstN(SplitWords(entry_name), 3)) # entry_name
     THEN <<JoinWords(FirstN(SplitWords(entry_name), 3))>> ELSE << >>)
    \o (IF JoinWords(FirstN(SplitWords(entry_name), 1)) # entry_name
        THEN <<JoinWords(FirstN(SplitWords(entry_name), 1))>> ELSE << >>)

starting_words_modification(entry_name) ==
    (IF JoinWords(FirstN(SplitWords(entry_name), 3)) # entry_name
     THEN <<JoinWords(FirstN(SplitWords(entry_name), 3))>> ELSE << >>)
    \o (IF JoinWords(FirstN(SplitWords(entry_name), 2)) # entry_name
        THEN <<JoinWords(FirstN(SplitWords(entry_name), 2))>> ELSE << >>)

\* DEFAULT_MODIFICATION_LIST[m].callback(entry_name), m counted from 1
ModificationCallback(m, entry_name) ==
    CASE m = 1 -> split_colon_modification(entry_name)
      [] m = 2 -> season_number_modification(entry_name)
      [] m = 3 -> starting_words_modification(entry_name)

\* DEFAULT_MODIFICATION_LIST[m].description
ModificationDescription(m) ==
    CASE m = 1 -> "Removed punctuations and text after the colon"
      [] m = 2 -> "Removed season numbers"
      [] m = 3 -> "Take only 2 or 3 starting words"

\* len(DEFAULT_MODIFICATION_LIST)
NumModifications == 3

\* ------------------------------------------------------------------------
\* rss_feed_manager.py: constants and the URL builder
\* ------------------------------------------------------------------------

SUBBER_LIST ==
    << <<"S", "u", "b", "s", "P", "l", "e", "a", "s", "e">>,
       <<"E", "r", "a", "i", "-", "r", "a", "w", "s">>,
       <<"E", "M", "B", "E", "R">>,
       <<"A", "n", "i", "m", "e", " ", "T", "i", "m", "e">>,
       <<"A", "-", "L">> >>

RESOLUTION_PARAM == <<"1", "0", "8", "0", "p">>

EXCLUDE_BATCH_PARAM == <<"-", "b", "a", "t", "c", "h">>

BASE_NYAA_URL == "https://nyaa.si/"

\* urllib.parse.quote_plus of one character, as urlencode applies it
QuotePlus(c) ==
    IF IsWordChar(c) \/ c \in {"-", ".", "~"} THEN c
    ELSE CASE c = " " -> "+"
      [] c = "!" -> "%21"
      [] c = "\"" -> "%22"
      [] c = "#" -> "%23"
      [] c = "$" -> "%24"
      [] c = "%" -> "%25"
      [] c = "&" -> "%26"
      [] c = "'" -> "%27"
      [] c = "(" -> "%28"
      [] c = ")" -> "%29"
      [] c = "*" -> "%2A"
      [] c = "+" -> "%2B"
      [] c = "," -> "%2C"
      [] c = "/" -> "%2F"
      [] c = ":" -> "%3A"
      [] c = ";" -> "%3B"
      [] c = "<" -> "%3C"
      [] c = "=" -> "%3D"
      [] c = ">" -> "%3E"
      [] c = "?" -> "%3F"
      [] c = "@" -> "%40"
      [] c = "[" -> "%5B"
      [] c = "\\" -> "%5C"
      [] c = "]" -> "%5D"
      [] c = "^" -> "%5E"
      [] c = "{" -> "%7B"
      [] c = "|" -> "%7C"
      [] c = "}" -> "%7D"
      [] c = "\t" -> "%09"

\* _build_url: BASE_NYAA_URL ? q=<name subber 1080p -batch> & page=rss & c=1_2
_build_url(entry_name, subber) ==
    LET q == entry_name \o <<" ">> \o subber \o <<" ">> \o RESOLUTION_PARAM
             \o <<" ">> \o EXCLUDE_BATCH_PARAM
    IN  <<BASE_NYAA_URL, "?", "q=">> \o [i \in DOMAIN q |-> QuotePlus(q[i])]
        \o <<"&", "page=rss", "&", "c=1_2">>

\* Optional[str] without a value
None == <<"None">>

\* What requests.get(rss_url) meets on the remote side.
RemoteAnswers == {"items", "no_items", "malformed", "unreachable"}

\* _feed_has_entries with "len(...) >= 0" in place of "len(...) > 0".
_feed_has_entries_any_length(answer) ==
    CASE answer = "unreachable" -> "ConnectionError"
      [] answer = "malformed"   -> "ParseError"
      [] answer = "items"       -> "True"
      [] answer = "no_items"    -> "True"

\* _feed_has_entries with "len(...) > 1" on a feed that holds a single item.
_feed_has_entries_more_than_one(answer) ==
    CASE answer = "unreachable" -> "ConnectionError"
      [] answer = "malformed"   -> "ParseError"
      [] answer = "items"       -> "False"
      [] answer = "no_items"    -> "False"

\* _feed_has_entries on a fetched answer: requests.get raises on a transport
\* failure, ET.fromstring raises ParseError on malformed content, otherwise
\* the result is len(root.findall(".//item")) > 0.
_feed_has_entries(answer) ==
    CASE answer = "unreachable" -> "ConnectionError"
      [] answer = "malformed"   -> "ParseError"
      [] answer = "items"       -> "True"
      [] answer = "no_items"    -> "False"

\* NeedsVerification with the operands of "or" in the other order, so that
\* the verifier is called whatever requires_entries is.
NeedsVerificationAlways(requires) == TRUE

\* Line 56/68: "not requires_entries or self._feed_has_entries(url)" calls
\* the verifier only when requires_entries is true.
NeedsVerification(requires) == requires

\* FlattenModified with a list comprehension that keeps only the first derived
\* name of each input name.
RECURSIVE FlattenModifiedFirstOnly(_, _)
FlattenModifiedFirstOnly(m, names) ==
    IF names = << >> THEN << >>
    ELSE FirstN(ModificationCallback(m, Head(names)), 1) \o FlattenModifiedFirstOnly(m, Tail(names))

\* flattened_modified_entry_names of lines 62-63 for modification m
RECURSIVE FlattenModified(_, _)
FlattenModified(m, names) ==
    IF names = << >> THEN << >>
    ELSE ModificationCallback(m, Head(names)) \o FlattenModified(m, Tail(names))

\* Line 77: [url for url in all_entries_urls if url is not None]
FilterFound(urls) == SelectSeq(urls, LAMBDA u : u # None)

\* ------------------------------------------------------------------------
\* mal_entry_manager.py
\* ------------------------------------------------------------------------

\* An optional value: << >> is None, <<v>> is v.
Absent == << >>

\* The largest number of entry ids on the user's lists.
MaxEntries == 2

\* The number of times the program is run on the same inputs.
MaxRuns == 2

VinlandSagaSeason2 == <<"V", "i", "n", "l", "a", "n", "d", " ", "S", "a", "g", "a", " ", "S", "e", "a", "s", "o", "n", " ", "2">>

VinlandSaga == <<"V", "i", "n", "l", "a", "n", "d", " ", "S", "a", "g", "a">>

Jigokuraku == <<"J", "i", "g", "o", "k", "u", "r", "a", "k", "u">>

HellsParadise == <<"H", "e", "l", "l", "'", "s", " ", "P", "a", "r", "a", "d", "i", "s", "e">>

Paradition == <<"P", "a", "r", "a", "d", "i", "t", "i", "o", "n">>

HuehueHue == <<"h", "u", "e", "h", "u", "e", ":", " ", "h", "u", "e">>

Heavenhell == <<"H", "e", "a", "v", "e", "n", "h", "e", "l", "l">>

\* The entry ids the tracking service knows.
EntryIdPool == {1, 2, 3, 4}

\* The details response of the tracking service for an entry id
\* (get_entry_details / get_all_entry_details): the fields that
\* get_filtered_entry_names reads.
EntryDetails(id) ==
    CASE id = 1 -> [title |-> VinlandSagaSeason2,
                    alternative_titles |-> [en |-> VinlandSagaSeason2, synonyms |-> << >>],
                    start_season |-> <<[season |-> "winter", year |-> 2023]>>,
                    status |-> "finished_airing"]
      [] id = 2 -> [title |-> Jigokuraku,
                    alternative_titles |-> [en |-> HellsParadise, synonyms |-> <<Paradition>>],
                    start_season |-> <<[season |-> "spring", year |-> 2023]>>,
                    status |-> "currently_airing"]
      [] id = 3 -> [title |-> HuehueHue,
                    alternative_titles |-> [en |-> << >>, synonyms |-> << >>],
                    start_season |-> <<[season |-> "fall", year |-> 2022]>>,
                    status |-> "finished_airing"]
      [] id = 4 -> [title |-> Heavenhell,
                    alternative_titles |-> [en |-> << >>, synonyms |-> << >>],
                    start_season |-> Absent,
                    status |-> "not_yet_aired"]

\* datetime.now() at the time of the run
Now == [month |-> 5, year |-> 2023]

\* _get_current_cour
_get_current_cour(now) ==
    <<CASE now.month \in {1, 2, 3}    -> "winter"
        [] now.month \in {4, 5, 6}    -> "spring"
        [] now.month \in {7, 8, 9}    -> "summer"
        [] now.month \in {10, 11, 12} -> "fall",
      now.year>>

\* _entry_airing_filter
_entry_airing_filter(entry, season, year) ==
    IF entry.start_season = Absent THEN FALSE
    ELSE \/ (entry.start_season[1].season = season /\ entry.start_season[1].year = year)
         \/ entry.status = "currently_airing"

\* Lines 97-102: the cour used for filtering; cr = <<season, year>> as given
\* on the command line, each possibly Absent.
EffectiveCour(cr) ==
    IF cr[1] # Absent /\ cr[2] # Absent THEN <<cr[1][1], cr[2][1]>>
    ELSE _get_current_cour(Now)

\* Line 110: [title, en, *synonyms] of one entry
RawEntryNames(entry) ==
    <<entry.title, entry.alternative_titles.en>> \o entry.alternative_titles.synonyms

\* The orders in which iterating a Python set of strings can yield its
\* members: string hashing is randomised per process, so every order of
\* the distinct members can occur.
SetOrders(S) ==
    {f \in [1..Cardinality(S) -> S] : \A i, j \in 1..Cardinality(S) : f[i] = f[j] => i = j}

\* Line 115 for one entry: [name for name in set(entry_names) if name]
FilteredNameOrders(raw) == SetOrders({n \in Range(raw) : n # << >>})

\* asyncio.gather with every awaitable another task's result: the results
\* in the order in which the tasks completed.
gather_in_completion_order(tasks, completion_order) ==
    [k \in DOMAIN completion_order |-> tasks[completion_order[k]].result[1]]

\* Line 64: asyncio.gather(*tasks) returns the results in the order of the
\* awaitables it was given, whatever the order in which they completed.
gather(tasks, completion_order) ==
    [i \in DOMAIN tasks |-> tasks[i].result[1]]

\* get_filtered_entry_names, lines 107-115, on the responses of line 105:
\* the lists of name lists it can return
get_filtered_entry_names(entries_details, cr) ==
    LET kept == SelectSeq(entries_details,
                          LAMBDA e : _entry_airing_filter(e, EffectiveCour(cr)[1], EffectiveCour(cr)[2]))
    IN  {ns \in [DOMAIN kept -> UNION {FilteredNameOrders(RawEntryNames(kept[i])) : i \in DOMAIN kept}] :
            \A i \in DOMAIN kept : ns[i] \in FilteredNameOrders(RawEntryNames(kept[i]))}

\* ------------------------------------------------------------------------
\* State
\* ------------------------------------------------------------------------

VARIABLES
    entryIds,          \* get_entry_list_ids(): the ids on the user's lists
    cour,              \* (args.season, args.year), each optional
    requires_entries,  \* not args.ignore_feed
    args_entry,        \* args.entry, optional
    args_query,        \* args.query, optional
    mal_requests,      \* the requests sent to the tracking service so far
    tasks,             \* get_all_entry_details: the tasks of line 63
    completion_order,  \* the indices of the completed tasks, first completed first
    entries_details,   \* get_filtered_entry_names: its local of line 105
    remote,            \* the feed service's answer to each URL fetched so far
    run,               \* which run of the program this is
    prev_url_list,     \* url_list of the previous run, Absent in the first
    pc,                \* control location
    entries_names,     \* main: entries_names / entry_list_names
    all_entries_urls,  \* get_all_entries_urls: results of get_entry_url so far
    url_list,          \* main: the value get_all_entries_urls returned
    entry_names,       \* get_entry_url: its argument
    subber_i,          \* get_entry_url: index of the subber loop
    modification_i,    \* get_entry_url: index of the modification loop
    name_i,            \* get_entry_url: index of the current name loop
    flattened_modified_entry_names,  \* get_entry_url: its local of lines 62-63
    built,             \* per get_entry_url call: the URLs _build_url returned
    calls,             \* per get_entry_url call: the URLs _feed_has_entries received
    log,               \* what _log_found_entry / _log_not_found_entry printed
    raised             \* the exception that ended the program, if any

inputs == <<entryIds, cour, requires_entries, args_entry, args_query>>
details == <<mal_requests, tasks, completion_order, entries_details>>
runs   == <<run, prev_url_list>>
frame  == <<entries_names, all_entries_urls, url_list>>
locals == <<entry_names, subber_i, modification_i, name_i, flattened_modified_entry_names>>
trace  == <<built, calls, log>>

vars == <<inputs, details, remote, runs, pc, frame, locals, trace, raised>>

\* Sequences without repetition over S of length 1..n
EntryIdLists(n) ==
    {s \in UNION {[1..k -> EntryIdPool] : k \in 1..n} :
        \A i, j \in DOMAIN s : s[i] = s[j] => i = j}

\* (args.season, args.year) as parse_arguments lets them through
CourArgs == { <<Absent, Absent>>, << <<"winter">>, <<2023>> >>, << <<"fall">>, <<2022>> >> }

\* The state of a process at control location start, before main has done
\* anything.
ProcessStart(start) ==
    /\ pc = start
    /\ mal_requests = << >>
    /\ tasks = << >>
    /\ completion_order = << >>
    /\ entries_details = << >>
    /\ remote = << >>
    /\ run = 1
    /\ prev_url_list = Absent
    /\ entries_names = << >>
    /\ all_entries_urls = << >>
    /\ url_list = << >>
    /\ entry_names = << >>
    /\ subber_i = 1
    /\ modification_i = 1
    /\ name_i = 1
    /\ flattened_modified_entry_names = << >>
    /\ built = << >>
    /\ calls = << >>
    /\ log = << >>
    /\ raised = "none"

\* The watch-list path with arguments that parse_arguments has accepted.
Init ==
    /\ entryIds \in EntryIdLists(MaxEntries)
    /\ cour \in CourArgs
    /\ requires_entries \in BOOLEAN
    /\ args_entry = Absent
    /\ args_query = Absent
    /\ ProcessStart("main")

\* ------------------------------------------------------------------------
\* Operations
\* ------------------------------------------------------------------------

\* bool(x) of an optional int: None and 0 are false.
IsTruthyInt(opt) == opt # Absent /\ opt[1] # 0

\* bool(x) of an optional str out of the choices of --season: None is false.
IsTruthyChoice(opt) == opt # Absent

\* parse_arguments, lines 23-29: parser.error prints the message and exits
\* with status 2 (SystemExit); otherwise main goes on with args.
parse_arguments ==
    /\ pc = "parse_arguments"
    /\ IF \/ (IsTruthyChoice(cour[1]) /\ ~IsTruthyInt(cour[2]))
          \/ (~IsTruthyChoice(cour[1]) /\ IsTruthyInt(cour[2]))
       THEN /\ raised' = "SystemExit"
            /\ pc' = "exit"
       ELSE IF IsTruthyInt(cour[2]) /\ (cour[2][1] < 1970 \/ cour[2][1] > 2050)
       THEN /\ raised' = "SystemExit"
            /\ pc' = "exit"
       ELSE /\ pc' = "main"
            /\ UNCHANGED raised
    /\ UNCHANGED <<inputs, details, remote, runs, frame, locals, trace>>

\* main, lines 56-62.  --entry: MalEntryManager has no method
\* get_entry_names, so line 57 raises AttributeError.  --query: the query is
\* the only name of the only entry.  Otherwise get_entry_list_ids sends the
\* two list requests and get_filtered_entry_names (lines 97-105, 60-63)
\* creates one task per entry id, each sending one details request.
main ==
    /\ pc = "main"
    /\ IF args_entry # Absent
       THEN /\ raised' = "AttributeError"
            /\ pc' = "raised"
            /\ UNCHANGED <<details, entries_names, all_entries_urls>>
       ELSE IF args_query # Absent
       THEN /\ entries_names' = << <<args_query[1]>> >>
            /\ all_entries_urls' = << >>
            /\ pc' = "get_all_entries_urls"
            /\ UNCHANGED <<details, raised>>
       ELSE /\ mal_requests' = <<"animelist?status=watching", "animelist?status=plan_to_watch">>
                                \o [i \in DOMAIN entryIds |-> <<"anime", entryIds[i]>>]
            /\ tasks' = [i \in DOMAIN entryIds |-> [id |-> entryIds[i], result |-> Absent]]
            /\ completion_order' = << >>
            /\ pc' = "gather"
            /\ UNCHANGED <<entries_details, entries_names, all_entries_urls, raised>>
    /\ UNCHANGED <<inputs, remote, runs, url_list, locals, trace>>

\* _get_async_mal_json_response, lines 31-32: one of the pending tasks gets
\* the response to its request; the tasks complete in any order.
_get_async_mal_json_response ==
    /\ pc = "gather"
    /\ \E i \in DOMAIN tasks :
          /\ tasks[i].result = Absent
          /\ tasks' = [tasks EXCEPT ![i].result = <<EntryDetails(tasks[i].id)>>]
          /\ completion_order' = Append(completion_order, i)
    /\ UNCHANGED <<inputs, mal_requests, entries_details, remote, runs, pc, frame, locals, trace, raised>>

\* get_all_entry_details, lines 64-65, and line 105: the await of gather
\* ends when every task is done, and the responses go to entries_details.
get_all_entry_details ==
    /\ pc = "gather"
    /\ \A i \in DOMAIN tasks : tasks[i].result # Absent
    /\ entries_details' = gather(tasks, completion_order)
    /\ pc' = "filter"
    /\ UNCHANGED <<inputs, mal_requests, tasks, completion_order, remote, runs, frame, locals, trace, raised>>

\* get_filtered_entry_names, lines 107-115, and main, line 65: the event
\* loop is closed, the names of the filtered entries are passed to
\* get_all_entries_urls.
FilterEntries ==
    /\ pc = "filter"
    /\ entries_names' \in get_filtered_entry_names(entries_details, cour)
    /\ all_entries_urls' = << >>
    /\ tasks' = << >>
    /\ completion_order' = << >>
    /\ pc' = "get_all_entries_urls"
    /\ UNCHANGED <<inputs, mal_requests, entries_details, remote, runs, url_list, locals, trace, raised>>

\* get_all_entries_urls, lines 76-77: call get_entry_url for the next entry,
\* or filter the results and return to main.
get_all_entries_urls ==
    /\ pc = "get_all_entries_urls"
    /\ IF Len(all_entries_urls) < Len(entries_names)
       THEN /\ entry_names' = entries_names[Len(all_entries_urls) + 1]
            /\ subber_i' = 1
            /\ built' = Append(built, << >>)
            /\ calls' = Append(calls, << >>)
            /\ pc' = "subber_loop"
            /\ UNCHANGED <<url_list, modification_i, name_i, flattened_modified_entry_names, log>>
       ELSE /\ url_list' = FilterFound(all_entries_urls)
            /\ pc' = "done"
            /\ UNCHANGED <<locals, trace>>
    /\ UNCHANGED <<inputs, details, remote, runs, entries_names, all_entries_urls, raised>>

\* get_entry_url returns value to the list comprehension of line 76.
Return(value) ==
    /\ all_entries_urls' = Append(all_entries_urls, value)
    /\ pc' = "get_all_entries_urls"

\* Head of "for subber in self.SUBBER_LIST" (line 51); after the last subber,
\* lines 72-73.
SubberLoop ==
    /\ pc = "subber_loop"
    /\ IF subber_i <= Len(SUBBER_LIST)
       THEN /\ name_i' = 1
            /\ pc' = "names_loop"
            /\ UNCHANGED <<all_entries_urls, log>>
       ELSE /\ log' = Append(log, [kind |-> "not_found", entry_names |-> entry_names])
            /\ Return(None)
            /\ UNCHANGED name_i
    /\ UNCHANGED <<inputs, details, remote, runs, entries_names, url_list, entry_names,
                   subber_i, modification_i, flattened_modified_entry_names, built, calls, raised>>

\* Lines 54-58 and 66-70: build the URL of one candidate, verify it unless
\* requires_entries is false, and return it on success.  m is 0 for an
\* unmodified name and the modification's index otherwise.
TryCandidate(entry_name, m) ==
    LET subber == SUBBER_LIST[subber_i]
        url    == _build_url(entry_name, subber)
        e      == Len(built)
        found  == /\ log' = Append(log, [kind |-> "found", entry_name |-> entry_name,
                                         subber |-> subber,
                                         requires_entries |-> requires_entries,
                                         modification |-> m])
                  /\ Return(url)
                  /\ UNCHANGED <<name_i, raised>>
    IN  /\ built' = [built EXCEPT ![e] = Append(@, url)]
        /\ IF ~NeedsVerification(requires_entries)
           THEN found /\ UNCHANGED <<remote, calls>>
           ELSE \E answer \in RemoteAnswers :
                  /\ url \in DOMAIN remote => answer = remote[url]
                  /\ remote' = (url :> answer) @@ remote
                  /\ calls' = [calls EXCEPT ![e] = Append(@, url)]
                  /\ CASE _feed_has_entries(answer) = "True"  -> found
                       [] _feed_has_entries(answer) = "False" ->
                            /\ name_i' = name_i + 1
                            /\ UNCHANGED <<pc, all_entries_urls, log, raised>>
                       [] OTHER ->
                            /\ raised' = _feed_has_entries(answer)
                            /\ pc' = "raised"
                            /\ UNCHANGED <<name_i, all_entries_urls, log>>

\* "for entry_name in entry_names" (lines 53-58)
NamesLoop ==
    /\ pc = "names_loop"
    /\ IF name_i <= Len(entry_names)
       THEN /\ TryCandidate(entry_names[name_i], 0)
            /\ UNCHANGED modification_i
       ELSE /\ modification_i' = 1
            /\ pc' = "modifications_loop"
            /\ UNCHANGED <<remote, all_entries_urls, name_i, trace, raised>>
    /\ UNCHANGED <<inputs, details, runs, entries_names, url_list, entry_names, subber_i, flattened_modified_entry_names>>

\* ModificationsLoop with the modification loop dedented out of the subber
\* loop: it runs once, after the last subber's unmodified names.
ModificationsLoopDedented ==
    /\ pc = "modifications_loop"
    /\ IF modification_i <= NumModifications /\ subber_i = Len(SUBBER_LIST)
       THEN /\ flattened_modified_entry_names' = FlattenModified(modification_i, entry_names)
            /\ name_i' = 1
            /\ pc' = "modified_names_loop"
            /\ UNCHANGED subber_i
       ELSE /\ subber_i' = subber_i + 1
            /\ pc' = "subber_loop"
            /\ UNCHANGED <<flattened_modified_entry_names, name_i>>
    /\ UNCHANGED <<inputs, details, remote, runs, frame, entry_names, modification_i, trace, raised>>

\* "for modification in self.modifications" (lines 61-63); after the last
\* modification the subber loop takes its next element.
ModificationsLoop ==
    /\ pc = "modifications_loop"
    /\ IF modification_i <= NumModifications
       THEN /\ flattened_modified_entry_names' = FlattenModified(modification_i, entry_names)
            /\ name_i' = 1
            /\ pc' = "modified_names_loop"
            /\ UNCHANGED subber_i
       ELSE /\ subber_i' = subber_i + 1
            /\ pc' = "subber_loop"
            /\ UNCHANGED <<flattened_modified_entry_names, name_i>>
    /\ UNCHANGED <<inputs, details, remote, runs, frame, entry_names, modification_i, trace, raised>>

\* "for entry_name in flattened_modified_entry_names" (lines 65-70)
ModifiedNamesLoop ==
    /\ pc = "modified_names_loop"
    /\ IF name_i <= Len(flattened_modified_entry_names)
       THEN /\ TryCandidate(flattened_modified_entry_names[name_i], modification_i)
            /\ UNCHANGED modification_i
       ELSE /\ modification_i' = modification_i + 1
            /\ pc' = "modifications_loop"
            /\ UNCHANGED <<remote, all_entries_urls, name_i, trace, raised>>
    /\ UNCHANGED <<inputs, details, runs, entries_names, url_list, entry_names, subber_i, flattened_modified_entry_names>>

\* The program is started again on the same inputs against the same feed
\* service; a new process iterates its sets in a new order.
Rerun ==
    /\ pc = "done"
    /\ run < MaxRuns
    /\ run' = run + 1
    /\ prev_url_list' = <<url_list>>
    /\ pc' = "main"
    /\ entries_names' = << >>
    /\ all_entries_urls' = << >>
    /\ url_list' = << >>
    /\ entry_names' = << >>
    /\ subber_i' = 1
    /\ modification_i' = 1
    /\ name_i' = 1
    /\ flattened_modified_entry_names' = << >>
    /\ built' = << >>
    /\ calls' = << >>
    /\ log' = << >>
    /\ mal_requests' = << >>
    /\ entries_details' = << >>
    /\ UNCHANGED <<inputs, tasks, completion_order, remote, raised>>

Next ==
    \/ main
    \/ _get_async_mal_json_response
    \/ get_all_entry_details
    \/ FilterEntries
    \/ get_all_entries_urls
    \/ SubberLoop
    \/ NamesLoop
    \/ ModificationsLoop
    \/ ModifiedNamesLoop

Spec == Init /\ [][Next]_vars

\* One entry, resolved in MaxRuns runs of the program.
InitRuns == Init /\ Len(entryIds) = 1

NextRuns == Next \/ Rerun

SpecRuns == InitRuns /\ [][NextRuns]_vars

\* The values of --season on the command line (None when not given).
SeasonArgs == {Absent, <<"winter">>}

\* The values of --year on the command line (type=int, None when not given).
YearArgs == {Absent} \cup {<<y>> : y \in {-1, 0, 1969, 1970, 2023, 2050, 2051}}

\* The values of --entry (type=int) and of --query (type=str).
EntryArgs == {Absent, <<2>>}

QueryArgs == {Absent, << << >> >>, <<VinlandSaga>>}

\* The program from its command line on: main calls parse_arguments first.
InitArgs ==
    /\ entryIds \in EntryIdLists(MaxEntries)
    /\ cour \in SeasonArgs \X YearArgs
    /\ requires_entries \in BOOLEAN
    /\ args_entry \in EntryArgs
    /\ args_query \in QueryArgs
    /\ ProcessStart("parse_arguments")

NextArgs == parse_arguments \/ Next

SpecArgs == InitArgs /\ [][NextArgs]_vars

\* The largest number of parts a --query text is made of.
MaxParts == 3

\* The parts the --query texts are made of: words, a word followed by a
\* space, a space, punctuation, a season word and a number.
NameParts ==
    { <<"a">>, <<"b", " ">>, <<" ">>, <<":">>,
      <<"S", "e", "a", "s", "o", "n", " ">>, <<"2">> }

\* The texts made of 1..n parts.
RECURSIVE PartsUpTo(_)
PartsUpTo(n) ==
    IF n <= 1 THEN NameParts
    ELSE PartsUpTo(n - 1) \cup {p \o q : p \in PartsUpTo(n - 1), q \in NameParts}

QueryTexts == PartsUpTo(MaxParts)

\* The free-text path: main is called with --query and a non-empty text.
InitQuery ==
    /\ entryIds = << >>
    /\ cour = <<Absent, Absent>>
    /\ requires_entries \in BOOLEAN
    /\ args_entry = Absent
    /\ args_query \in {<<text>> : text \in QueryTexts}
    /\ ProcessStart("main")

NextQuery ==
    \/ main
    \/ get_all_entries_urls
    \/ SubberLoop
    \/ NamesLoop
    \/ ModificationsLoop
    \/ ModifiedNamesLoop

SpecQuery == InitQuery /\ [][NextQuery]_vars

\* ------------------------------------------------------------------------
\* The candidate order of the specification (section 4.5), written
\* independently of the loops above
\* ------------------------------------------------------------------------

\* The names derived by rule m from names[i..], in input-name order.
RECURSIVE DerivedFrom(_, _, _)
DerivedFrom(m, names, i) ==
    IF i > Len(names) THEN << >>
    ELSE ModificationCallback(m, names[i]) \o DerivedFrom(m, names, i + 1)

\* Every derived name, rule by rule in list order.
RECURSIVE DerivedUpTo(_, _)
DerivedUpTo(m, names) ==
    IF m = 0 THEN << >>
    ELSE DerivedUpTo(m - 1, names) \o DerivedFrom(m, names, 1)

DerivedNames(names) == DerivedUpTo(NumModifications, names)

\* The names tried for one subber: the unmodified ones, then the derived.
TierNames(names) == names \o DerivedNames(names)

\* The URLs of the candidates of subbers s..last, in priority order.
RECURSIVE CandidateUrlsFrom(_, _)
CandidateUrlsFrom(tier, s) ==
    IF s > Len(SUBBER_LIST) THEN << >>
    ELSE [k \in DOMAIN tier |-> _build_url(tier[k], SUBBER_LIST[s])]
         \o CandidateUrlsFrom(tier, s + 1)

\* Every name list get_filtered_entry_names can hand to the resolver.
NameLists ==
    UNION {FilteredNameOrders(RawEntryNames(EntryDetails(id))) : id \in EntryIdPool}

\* The function on S with value Row(n) at n, computed once.
RECURSIVE Table(_, _)
Table(Row(_), S) ==
    IF S = {} THEN << >>
    ELSE LET n == CHOOSE x \in S : TRUE
         IN  (n :> Row(n)) @@ Table(Row, S \ {n})

\* The names tried for one subber, for each name list.
TierNamesOf == Table(TierNames, NameLists)

CandidateUrlsOfNames(names) == CandidateUrlsFrom(TierNames(names), 1)

\* The candidate URLs in priority order, for each name list.
CandidateUrls == Table(CandidateUrlsOfNames, NameLists)

SubberUrlsOfNames(names) ==
    LET tier == TierNames(names)
    IN  [s \in DOMAIN SUBBER_LIST |-> {_build_url(tier[k], SUBBER_LIST[s]) : k \in DOMAIN tier}]

\* The URLs of every name of the entry under subber s, for each name list.
SubberUrls == Table(SubberUrlsOfNames, NameLists)

\* The entry calls of get_entry_url that have returned.
Returned == 1..Len(all_entries_urls)

\* The feed service answered that the URL's feed holds no item.
AnsweredNoItems(url) == url \in DOMAIN remote /\ remote[url] = "no_items"

\* The feed service answered that the URL's feed holds an item.
AnsweredItems(url) == url \in DOMAIN remote /\ remote[url] = "items"

\* ------------------------------------------------------------------------
\* Claims
\* ------------------------------------------------------------------------

\* C1: with requires_entries true, the verifier calls of one get_entry_url
\* call are a prefix of the fixed candidate order (per subber: unmodified
\* names in input order, then each rule's derived names), and every call
\* but the latest was answered "no items": no later candidate is verified
\* before every earlier one has been verified and failed.
C1_CallsArePrefixOfCandidateOrder ==
    requires_entries =>
        \A e \in DOMAIN calls :
            /\ LET order == CandidateUrls[entries_names[e]]
               IN  /\ Len(calls[e]) <= Len(order)
                   /\ \A k \in DOMAIN calls[e] : calls[e][k] = order[k]
            /\ \A k \in 1..(Len(calls[e]) - 1) : AnsweredNoItems(calls[e][k])

\* C1 witness: an entry with derived names whose verification has gone past
\* every candidate of the first subber into the derived names of the second.
C1_Witness ==
    /\ requires_entries
    /\ \E e \in DOMAIN calls :
        /\ Len(TierNamesOf[entries_names[e]]) > Len(entries_names[e])
        /\ Len(calls[e]) > Len(TierNamesOf[entries_names[e]]) + Len(entries_names[e])

\* C2: with requires_entries true, a returned URL is that of the first
\* candidate in priority order that the feed service answered with items,
\* every earlier candidate having been answered "no items"; None is
\* returned if and only if every candidate of every subber was answered
\* "no items".
C2_FirstHitOrNone ==
    requires_entries =>
        \A e \in Returned :
            LET order == CandidateUrls[entries_names[e]]
                r     == all_entries_urls[e]
            IN  /\ r # None =>
                    \E k \in DOMAIN order :
                        /\ order[k] = r
                        /\ AnsweredItems(order[k])
                        /\ \A j \in 1..(k - 1) : AnsweredNoItems(order[j])
                /\ r = None <=> \A k \in DOMAIN order : AnsweredNoItems(order[k])

\* C2 witness: one entry was resolved to None and another to the URL of a
\* derived name.
C2_Witness ==
    /\ requires_entries
    /\ \E e1, e2 \in Returned :
        /\ all_entries_urls[e1] = None
        /\ all_entries_urls[e2] # None
        /\ log[e2].modification > 0

\* C3: with requires_entries false, every get_entry_url call returns the URL
\* built from the first name in input order and the first subber, never
\* None, and the verifier is not called.
C3_DefaultUrlWithoutVerification ==
    ~requires_entries =>
        /\ \A e \in DOMAIN calls : calls[e] = << >>
        /\ \A e \in Returned :
            /\ all_entries_urls[e] # None
            /\ all_entries_urls[e] = _build_url(entries_names[e][1], SUBBER_LIST[1])

\* C3 witness: two entries, the first with several names, were resolved
\* with requires_entries false.
C3_Witness ==
    /\ ~requires_entries
    /\ Len(all_entries_urls) = 2
    /\ Len(entries_names[1]) > 1

\* C4 as claimed: a transport or parse failure of a verifier call counts as
\* "no entries" and is never propagated, so the program never ends with an
\* exception raised by _feed_has_entries.
C4_Orig_FailureNotPropagated == pc # "raised" /\ raised = "none"

\* The index in SUBBER_LIST of a subber.
SubberIndex(subber) == CHOOSE s \in DOMAIN SUBBER_LIST : SUBBER_LIST[s] = subber

\* The entry calls that returned a URL after verification.
Found == {e \in Returned : log[e].kind = "found"}

\* C5 as claimed: unmodified names are tried against every subber before
\* any derived name is tried, so whenever a derived name is accepted every
\* unmodified name has been verified without items under every subber.
C5_Orig_UnmodifiedAcrossSubbersFirst ==
    requires_entries =>
        \A e \in Found :
            log[e].modification > 0 =>
                \A s \in DOMAIN SUBBER_LIST :
                    \A k \in DOMAIN entries_names[e] :
                        LET u == _build_url(entries_names[e][k], SUBBER_LIST[s])
                        IN  u \in Range(calls[e]) /\ AnsweredNoItems(u)

\* C5 as amended: the subber is the outer key.  When a URL is accepted
\* under subber i, every unmodified and every derived name of every earlier
\* subber has been verified without items, no URL of a later subber has
\* been built, and if the accepted name is a derived one the unmodified
\* names have been verified without items under subber i only.
C5_SubberIsOuterKey ==
    requires_entries =>
        \A e \in Found :
            LET i     == SubberIndex(log[e].subber)
                names == entries_names[e]
            IN  /\ \A s \in 1..(i - 1) :
                      \A u \in SubberUrls[names][s] :
                          u \in Range(calls[e]) /\ AnsweredNoItems(u)
                /\ \A s \in (i + 1)..Len(SUBBER_LIST) :
                      Range(built[e]) \cap SubberUrls[names][s] = {}
                /\ log[e].modification > 0 =>
                      \A k \in DOMAIN names :
                          LET u == _build_url(names[k], SUBBER_LIST[i])
                          IN  u \in Range(calls[e]) /\ AnsweredNoItems(u)

\* C5 witness: a derived name was accepted under the second subber, the
\* unmodified names never having been tried under the third.
C5_Witness ==
    /\ requires_entries
    /\ \E e \in Found :
        /\ log[e].modification > 0
        /\ SubberIndex(log[e].subber) = 2
        /\ _build_url(entries_names[e][1], SUBBER_LIST[3]) \notin Range(built[e])

\* The scenario of C6: the feed service has items for "Vinland Saga" under
\* the second subber, Erai-raws, and for no other URL it was asked for.
VinlandSagaEraiRaws == _build_url(VinlandSaga, SUBBER_LIST[2])

OnlyVinlandSagaEraiRawsHasItems ==
    /\ AnsweredItems(VinlandSagaEraiRaws)
    /\ \A u \in DOMAIN remote : remote[u] = "items" => u = VinlandSagaEraiRaws

\* C6: the first success ends the search.  A returned URL is the last URL
\* built and, with verification, the last URL verified; no verifier call
\* follows one answered with items.  For names ["Vinland Saga Season 2"] and
\* items only for ("Vinland Saga", "Erai-raws") the result is that URL and
\* no URL is built for EMBER, Anime Time or A-L.
C6_FirstSuccessShortCircuits ==
    /\ \A e \in DOMAIN calls :
          \A k \in 1..(Len(calls[e]) - 1) : ~AnsweredItems(calls[e][k])
    /\ \A e \in Returned :
          all_entries_urls[e] # None =>
              /\ all_entries_urls[e] = built[e][Len(built[e])]
              /\ requires_entries =>
                    /\ calls[e] = built[e]
                    /\ AnsweredItems(all_entries_urls[e])
    /\ \A e \in Returned :
          (entries_names[e] = <<VinlandSagaSeason2>> /\ OnlyVinlandSagaEraiRawsHasItems) =>
              /\ all_entries_urls[e] = VinlandSagaEraiRaws
              /\ \A s \in 3..Len(SUBBER_LIST) :
                    Range(built[e]) \cap SubberUrls[entries_names[e]][s] = {}

\* C6 witness: ["Vinland Saga Season 2"] was resolved to the URL of
\* ("Vinland Saga", "Erai-raws"), the only URL with items.
C6_Witness ==
    /\ requires_entries
    /\ \E e \in Returned :
        /\ entries_names[e] = <<VinlandSagaSeason2>>
        /\ OnlyVinlandSagaEraiRawsHasItems
        /\ all_entries_urls[e] = VinlandSagaEraiRaws

\* C7 as claimed: whenever get_all_entries_urls has ended, the list it gave
\* to main holds, in order, exactly the URLs of the entries whose resolution
\* succeeded, whatever happened to the other entries.
C7_Orig_SucceededEntriesAreReturned ==
    pc \in {"done", "raised"} => url_list = FilterFound(all_entries_urls)

\* C8 as claimed: the not-found report carries every name tried, so every
\* URL built for the entry was built from a name in the report.
C8_Orig_NotFoundCarriesAllTriedNames ==
    \A e \in Returned :
        log[e].kind = "not_found" =>
            \A u \in Range(built[e]) :
                \E n \in Range(log[e].entry_names) :
                    \E s \in DOMAIN SUBBER_LIST : u = _build_url(n, SUBBER_LIST[s])

\* C9 as claimed: within one get_entry_url call no URL is verified twice
\* (the name lists of get_filtered_entry_names are duplicate-free).
C9_Orig_NoUrlVerifiedTwice ==
    \A e \in DOMAIN calls :
        \A j, k \in DOMAIN calls[e] : calls[e][j] = calls[e][k] => j = k

\* C10 as claimed: a second run on the same entry, with the same answers of
\* the feed service, ends with the same URL list as the first.
C10_Orig_RunsAgree ==
    (pc = "done" /\ prev_url_list # Absent) => url_list = prev_url_list[1]

\* Every character of the name is alphanumeric, an underscore or whitespace.
NoPunctuation(name) == \A i \in DOMAIN name : IsWordChar(name[i]) \/ IsSpaceChar(name[i])

\* The name holds neither "season" nor "stage", in any letter case.
NoSeasonWord(name) ==
    \A i \in DOMAIN name : \A w \in Range(SeasonWords) : ~LiteralAt(name, i, w)

\* The number of whitespace-delimited words of the name.
WordCount(name) ==
    Cardinality({i \in DOMAIN name :
                    ~IsSpaceChar(name[i]) /\ (i = 1 \/ IsSpaceChar(name[i - 1]))})

\* The words of the name are separated by one space character each, with
\* no whitespace before the first or after the last.
SingleSpaced(name) ==
    /\ name # << >>
    /\ ~IsSpaceChar(name[1]) /\ ~IsSpaceChar(name[Len(name)])
    /\ \A i \in DOMAIN name : IsSpaceChar(name[i]) => name[i] = " " /\ ~IsSpaceChar(name[i + 1])

\* C11 as claimed: for a name without punctuation, without season or stage
\* word and of 1, 2 or 3 words, each of the three rules returns the empty
\* list: whenever get_entry_url has applied a rule to such a name, the list
\* of derived names is empty.
C11_Orig_UpToThreeWordsDeriveNothing ==
    (/\ pc = "modified_names_loop"
     /\ NoPunctuation(entry_names[1])
     /\ NoSeasonWord(entry_names[1])
     /\ WordCount(entry_names[1]) \in 1..3)
        => flattened_modified_entry_names = << >>

\* C11 as amended: for a name without punctuation, without season or stage
\* word, of 1 or 2 words separated by single spaces and without whitespace
\* around them, each of the three rules returns the empty list.
C11_UpToTwoSingleSpacedWordsDeriveNothing ==
    (/\ pc = "modified_names_loop"
     /\ NoPunctuation(entry_names[1])
     /\ NoSeasonWord(entry_names[1])
     /\ SingleSpaced(entry_names[1])
     /\ WordCount(entry_names[1]) \in 1..2)
        => /\ flattened_modified_entry_names = << >>
           /\ \A m \in 1..NumModifications : ModificationCallback(m, entry_names[1]) = << >>

\* C11 witness: the third rule, the last of the pipeline, has been applied
\* to a name of two words and has derived nothing.
C11_Witness ==
    /\ pc = "modified_names_loop"
    /\ modification_i = NumModifications
    /\ NoPunctuation(entry_names[1])
    /\ NoSeasonWord(entry_names[1])
    /\ SingleSpaced(entry_names[1])
    /\ WordCount(entry_names[1]) = 2
    /\ flattened_modified_entry_names = << >>

\* C12 as claimed: every name list that main passes to get_all_entries_urls
\* is free of duplicates and holds no empty string, on the watch-list path,
\* the --entry path and the --query path.
C12_Orig_NameListsDeduplicatedNonEmpty ==
    \A e \in DOMAIN entries_names :
        /\ \A j, k \in DOMAIN entries_names[e] :
              entries_names[e][j] = entries_names[e][k] => j = k
        /\ \A k \in DOMAIN entries_names[e] : entries_names[e][k] # << >>

\* --season and --year are both absent, or both given with the year within
\* 1970..2050.
ValidCourArgs ==
    \/ (cour[1] = Absent /\ cour[2] = Absent)
    \/ (cour[1] # Absent /\ cour[2] # Absent /\ cour[2][1] \in 1970..2050)

\* C13 as claimed: an invocation with exactly one of --season and --year,
\* or with a year outside 1970..2050, is rejected by parse_arguments: it
\* never gets past parse_arguments and no request is ever sent for it.
C13_Orig_InvalidCourRejected ==
    ~ValidCourArgs =>
        /\ pc \in {"parse_arguments", "exit"}
        /\ mal_requests = << >>
        /\ remote = << >>

\* C14: whatever the order in which the details requests complete,
\* get_all_entry_details returns one response per entry id, the i-th being
\* the response for the i-th id, and returns only when every request has
\* completed; nothing is filtered while a request is pending.  (pc is
\* "filter" when get_all_entry_details has returned and line 108 is next.)
C14_ResponsesInIdOrder ==
    /\ pc = "gather" => entries_details = << >> /\ entries_names = << >>
    /\ pc = "filter" =>
          /\ \A i \in DOMAIN tasks : tasks[i].result # Absent
          /\ Len(completion_order) = Len(entryIds)
          /\ Len(entries_details) = Len(entryIds)
          /\ \A i \in DOMAIN entryIds : entries_details[i] = EntryDetails(entryIds[i])

\* C14 witness: the request for the second id completed before the request
\* for the first, and get_all_entry_details has returned.
C14_Witness ==
    /\ pc = "filter"
    /\ Len(entryIds) >= 2
    /\ completion_order[1] = 2
    /\ entries_details[1] = EntryDetails(entryIds[1])
    /\ entries_details[2] = EntryDetails(entryIds[2])

\* C15 as claimed: for a name list without empty strings, no candidate URL
\* is built from the empty name: no rule derives the empty name from a
\* non-empty one.
C15_Orig_NoEmptyCandidateName ==
    \A e \in DOMAIN built :
        (\A k \in DOMAIN entries_names[e] : entries_names[e][k] # << >>) =>
            \A u \in Range(built[e]) :
                \A s \in DOMAIN SUBBER_LIST : u # _build_url(<< >>, SUBBER_LIST[s])
====
